---------------------------- MODULE Spec2Model ----------------------------
(***************************************************************************)
(* The UART calculator of calc/src/main.c: an interrupt callback           *)
(* (serial_cb) that assembles received bytes into lines and puts them on   *)
(* a message queue, and a main thread that takes the lines, evaluates      *)
(* "<int> <op> <int>" and prints the answer.                               *)
(*                                                                         *)
(* A byte is a one-character string; the bytes with no TLA+ escape are     *)
(* the tokens NUL and VT.  C index i of a buffer is index i+1 of the       *)
(* sequence that models it.  int is 32 bits wide; long is 32 or 64 bits    *)
(* wide, as the target's data model (ILP32 or LP64) has it.                *)
(***************************************************************************)
EXTENDS Integers, Sequences, FiniteSets, TLC

(***************************************************************************)
(* Program constants                                                       *)
(***************************************************************************)
MSG_SIZE == 32

MSGQ_MAX_MSGS == 10

ERR_NONE == 0

ERR_INVALID_EXPR == -1

ERR_ZERO_DIV == -2

INT_MAX == 2147483647

INT_MIN == -INT_MAX - 1

NUL == "NUL"

VT == "VT"

CR == "\r"

LF == "\n"

(***************************************************************************)
(* <ctype.h>, <string.h>, <stdlib.h> as the evaluator uses them.  A read   *)
(* past the end of the memory that is modelled yields NUL.                 *)
(***************************************************************************)
isspace(c) == c \in {" ", "\t", LF, VT, "\f", CR}

Digits == <<"0", "1", "2", "3", "4", "5", "6", "7", "8", "9">>

isdigit(c) == \E i \in 1..10 : Digits[i] = c

DigitVal(c) == (CHOOSE i \in 1..10 : Digits[i] = c) - 1

At(mem, p) == IF p \in 1..Len(mem) THEN mem[p] ELSE NUL

Max(a, b) == IF a >= b THEN a ELSE b

Min(a, b) == IF a <= b THEN a ELSE b

RECURSIVE SkipSpace(_, _)
SkipSpace(mem, p) == IF isspace(At(mem, p)) THEN SkipSpace(mem, p + 1) ELSE p

RECURSIVE SkipDigits(_, _)
SkipDigits(mem, p) == IF isdigit(At(mem, p)) THEN SkipDigits(mem, p + 1) ELSE p

RECURSIVE strlen(_, _)
strlen(mem, p) == IF At(mem, p) = NUL THEN 0 ELSE 1 + strlen(mem, p + 1)

(***************************************************************************)
(* 32-bit two's-complement arithmetic.  The operators never leave the      *)
(* 32-bit range on the way, so that the model checker's own integers do    *)
(* not overflow.                                                           *)
(***************************************************************************)
AddFits(a, b) == IF b >= 0 THEN a <= INT_MAX - b ELSE a >= INT_MIN - b

(* a + b reduced modulo 2^32 into INT_MIN..INT_MAX *)
(* addition that stops at INT_MAX and INT_MIN *)
Add32_saturating(a, b) ==
    IF AddFits(a, b) THEN a + b ELSE IF b > 0 THEN INT_MAX ELSE INT_MIN

Add32(a, b) ==
    IF AddFits(a, b) THEN a + b
    ELSE IF b > 0 THEN ((a + INT_MIN) + b) + INT_MIN
         ELSE ((a - INT_MIN) + b) - INT_MIN

Neg32(a) == IF a = INT_MIN THEN INT_MIN ELSE -a

Sub32(a, b) == IF b = INT_MIN THEN Add32(Add32(a, INT_MAX), 1) ELSE Add32(a, -b)

(* a * b modulo 2^32, from the 16-bit halves of the two's complements of   *)
(* a and b: Lo16(x * y) and Hi16(x * y) for 0 <= x, y < 2^16.              *)
Lo16(x, y) == ((x * (y % 256)) + ((x * (y \div 256)) % 256) * 256) % 65536

Hi16(x, y) ==
    (((x * (y % 256)) + ((x * (y \div 256)) % 256) * 256) \div 65536)
      + ((x * (y \div 256)) \div 256)

Mul32(a, b) ==
    LET al == a % 65536
        ah == (a \div 65536) % 65536
        bl == b % 65536
        bh == (b \div 65536) % 65536
        lo == Lo16(al, bl)
        hi == (Hi16(al, bl) + Lo16(ah, bl) + Lo16(al, bh)) % 65536
    IN  IF hi >= 32768 THEN (hi - 65536) * 65536 + lo ELSE hi * 65536 + lo

(* C's / and % for b # 0 and (a, b) # (INT_MIN, -1): the quotient          *)
(* truncated toward zero, the remainder with the sign of a.                *)
RECURSIVE TruncDiv(_, _)
TruncDiv(a, b) ==
    IF b > 0
    THEN IF a < 0 /\ a % b # 0 THEN (a \div b) + 1 ELSE a \div b
    ELSE IF b = INT_MIN THEN (IF a = INT_MIN THEN 1 ELSE 0)
         ELSE -TruncDiv(a, -b)

RECURSIVE TruncRem(_, _)
TruncRem(a, b) ==
    IF b > 0
    THEN IF a < 0 /\ a % b # 0 THEN (a % b) - b ELSE a % b
    ELSE IF b = INT_MIN THEN (IF a = INT_MIN THEN 0 ELSE a)
         ELSE TruncRem(a, -b)

(***************************************************************************)
(* strtol(nptr, &endptr, 10) and the conversion of its long to the int it  *)
(* is assigned to.                                                         *)
(***************************************************************************)

(* The digits mem[p..e-1] as a 32-bit long: accumulated as a negative      *)
(* number (so that the magnitude 2^31 is representable), saturating at     *)
(* LONG_MIN; sat records that the magnitude exceeded 2^31.                 *)
RECURSIVE AccDigits(_, _, _, _)
AccDigits(mem, p, e, st) ==
    IF p >= e THEN st
    ELSE LET d == DigitVal(mem[p])
         IN  IF st.sat \/ st.acc < -(INT_MAX \div 10)
                \/ (st.acc = -(INT_MAX \div 10) /\ d > 8)
             THEN AccDigits(mem, p + 1, e, [acc |-> INT_MIN, sat |-> TRUE])
             ELSE AccDigits(mem, p + 1, e, [acc |-> st.acc * 10 - d, sat |-> FALSE])

(* LONG_MAX of a 64-bit long, 2^63 - 1, in decimal *)
LongMax64 ==
    <<"9", "2", "2", "3", "3", "7", "2", "0", "3", "6", "8", "5", "4", "7", "7", "5",
      "8", "0", "7">>

RECURSIVE StripZeros(_)
StripZeros(ds) ==
    IF Len(ds) > 1 /\ Head(ds) = "0" THEN StripZeros(Tail(ds)) ELSE ds

(* the number with digits x is greater than the number with digits y       *)
(* (neither with leading zeros)                                            *)
DecGreater(x, y) ==
    \/ Len(x) > Len(y)
    \/ /\ Len(x) = Len(y)
       /\ \E i \in 1..Len(x) :
            /\ \A j \in 1..(i - 1) : x[j] = y[j]
            /\ DigitVal(x[i]) > DigitVal(y[i])

(* the low 32 bits of the number with digits ds, as an int *)
RECURSIVE Low32(_, _)
Low32(ds, acc) ==
    IF ds = <<>> \/ acc \notin INT_MIN..INT_MAX THEN acc
    ELSE Low32(Tail(ds), Add32(Mul32(acc, 10), DigitVal(Head(ds))))

(* (int) of the long that strtol makes of the digits ds with the sign neg: *)
(* a 32-bit long saturates at LONG_MAX or LONG_MIN and converts as it is;  *)
(* a 64-bit long saturates at its own LONG_MAX or LONG_MIN and converts to *)
(* its low 32 bits.                                                        *)
LongToInt(mem, d, e, neg, lbits) ==
    IF lbits = 32
    THEN LET a == AccDigits(mem, d, e, [acc |-> 0, sat |-> FALSE])
         IN  IF neg THEN a.acc ELSE IF a.acc = INT_MIN THEN INT_MAX ELSE -a.acc
    ELSE LET ds == StripZeros(SubSeq(mem, d, e - 1))
         IN  IF DecGreater(ds, LongMax64)
             THEN (IF neg THEN 0 ELSE -1)
             ELSE IF neg THEN Neg32(Low32(ds, 0)) ELSE Low32(ds, 0)

(* Leading white space, an optional sign, the longest run of digits; no    *)
(* digits: endptr = nptr and 0.  nptr is mem + (p-1); hi is the highest    *)
(* index read.                                                             *)
strtol(mem, p, lbits) ==
    LET s == SkipSpace(mem, p)
        neg == At(mem, s) = "-"
        d == IF At(mem, s) \in {"+", "-"} THEN s + 1 ELSE s
        e == SkipDigits(mem, d)
    IN  IF e = d
        THEN [val |-> 0, endptr |-> p, hi |-> d]
        ELSE [val |-> LongToInt(mem, d, e, neg, lbits), endptr |-> e, hi |-> e]

(***************************************************************************)
(* perform_operation: the set of outcomes the call can have.  An outcome   *)
(* is [ret, result, trap]: the return value, the value stored in *result   *)
(* (0, the caller's initial value, when nothing is stored) and whether the *)
(* processor raised a divide exception instead of returning.  INT_MIN / -1 *)
(* and INT_MIN % -1 are undefined in C: the divide instruction either      *)
(* traps (x86) or yields INT_MIN and remainder 0 (Arm).                    *)
(***************************************************************************)
Returned(ret, result) == [ret |-> ret, result |-> result, trap |-> FALSE]

Trapped == [ret |-> ERR_NONE, result |-> 0, trap |-> TRUE]

(* perform_operation taking the end of the string for a plus sign *)
perform_operation_nul_adds(operand1, operand2, operator) ==
    IF operator \in {NUL, "+"}
    THEN {Returned(ERR_NONE, Add32(operand1, operand2))}
    ELSE {Returned(ERR_INVALID_EXPR, 0)}

(* perform_operation whose default case returns the first operand *)
perform_operation_default_first(operand1, operand2, operator) ==
    CASE operator = "+" -> {Returned(ERR_NONE, Add32(operand1, operand2))}
      [] operator = "-" -> {Returned(ERR_NONE, Sub32(operand1, operand2))}
      [] operator = "*" -> {Returned(ERR_NONE, Mul32(operand1, operand2))}
      [] operator = "/" ->
           IF operand2 # 0
           THEN IF operand1 = INT_MIN /\ operand2 = -1
                THEN {Trapped, Returned(ERR_NONE, INT_MIN)}
                ELSE {Returned(ERR_NONE, TruncDiv(operand1, operand2))}
           ELSE {Returned(ERR_ZERO_DIV, 0)}
      [] operator = "%" ->
           IF operand2 # 0
           THEN IF operand1 = INT_MIN /\ operand2 = -1
                THEN {Trapped, Returned(ERR_NONE, 0)}
                ELSE {Returned(ERR_NONE, TruncRem(operand1, operand2))}
           ELSE {Returned(ERR_ZERO_DIV, 0)}
      [] OTHER -> {Returned(ERR_NONE, operand1)}

perform_operation(operand1, operand2, operator) ==
    CASE operator = "+" -> {Returned(ERR_NONE, Add32(operand1, operand2))}
      [] operator = "-" -> {Returned(ERR_NONE, Sub32(operand1, operand2))}
      [] operator = "*" -> {Returned(ERR_NONE, Mul32(operand1, operand2))}
      [] operator = "/" ->
           IF operand2 # 0
           THEN IF operand1 = INT_MIN /\ operand2 = -1
                THEN {Trapped, Returned(ERR_NONE, INT_MIN)}
                ELSE {Returned(ERR_NONE, TruncDiv(operand1, operand2))}
           ELSE {Returned(ERR_ZERO_DIV, 0)}
      [] operator = "%" ->
           IF operand2 # 0
           THEN IF operand1 = INT_MIN /\ operand2 = -1
                THEN {Trapped, Returned(ERR_NONE, 0)}
                ELSE {Returned(ERR_NONE, TruncRem(operand1, operand2))}
           ELSE {Returned(ERR_ZERO_DIV, 0)}
      [] OTHER -> {Returned(ERR_INVALID_EXPR, 0)}

(* eval_expression without the test for trailing characters *)
eval_expression_no_trailing_test(mem, lbits) ==
    LET n1 == strtol(mem, 1, lbits)
        opp == SkipSpace(mem, n1.endptr)
        n2 == strtol(mem, opp + 1, lbits)
        hi == Max(Max(n1.hi, n2.hi), 1 + strlen(mem, 1))
    IN  IF strlen(mem, n1.endptr) = strlen(mem, 1)
           \/ strlen(mem, n2.endptr) = strlen(mem, opp + 1)
        THEN {[ret |-> ERR_INVALID_EXPR, result |-> 0, trap |-> FALSE, hi |-> hi]}
        ELSE {[ret |-> o.ret, result |-> o.result, trap |-> o.trap, hi |-> hi] :
                o \in perform_operation(n1.val, n2.val, At(mem, opp))}

(***************************************************************************)
(* eval_expression(expr, &result) with expr = mem: the set of outcomes,    *)
(* each with hi, the highest index of mem the call read.                   *)
(***************************************************************************)
eval_expression(mem, lbits) ==
    LET expr1 == 1
        n1 == strtol(mem, expr1, lbits)
        bad1 == strlen(mem, n1.endptr) = strlen(mem, expr1)
        opp == SkipSpace(mem, n1.endptr)
        operator == At(mem, opp)
        expr2 == opp + 1
        n2 == strtol(mem, expr2, lbits)
        bad2 == strlen(mem, n2.endptr) = strlen(mem, expr2)
        endp == SkipSpace(mem, n2.endptr)
        hi1 == Max(n1.hi, expr1 + strlen(mem, expr1))
        hi2 == Max(Max(hi1, opp), Max(n2.hi, expr2 + strlen(mem, expr2)))
        hi3 == Max(hi2, endp)
    IN  IF bad1 THEN {[ret |-> ERR_INVALID_EXPR, result |-> 0, trap |-> FALSE, hi |-> hi1]}
        ELSE IF bad2
             THEN {[ret |-> ERR_INVALID_EXPR, result |-> 0, trap |-> FALSE, hi |-> hi2]}
             ELSE IF At(mem, endp) # NUL
                  THEN {[ret |-> ERR_INVALID_EXPR, result |-> 0, trap |-> FALSE,
                         hi |-> hi3]}
                  ELSE {[ret |-> o.ret, result |-> o.result, trap |-> o.trap,
                         hi |-> hi3] : o \in perform_operation(n1.val, n2.val, operator)}

(***************************************************************************)
(* sprintf's %d: the decimal digits of n, with a leading minus sign        *)
(***************************************************************************)
RECURSIVE NegDec(_)
NegDec(n) ==
    IF n > -10 THEN <<Digits[1 - n]>>
    ELSE Append(NegDec(TruncDiv(n, 10)), Digits[1 - TruncRem(n, 10)])

FormatInt(n) == IF n < 0 THEN <<"-">> \o NegDec(n) ELSE NegDec(-n)

(***************************************************************************)
(* The text the program prints                                             *)
(***************************************************************************)
Banner1 ==
    <<"S", "i", "m", "p", "l", "e", " ", "U", "A", "R", "T", " ", "C", "a", "l", "c",
      "u", "l", "a", "t", "o", "r">>

Banner2 ==
    <<"E", "n", "t", "e", "r", " ", "a", " ", "m", "a", "t", "h", "e", "m", "a", "t",
      "i", "c", "a", "l", " ", "e", "x", "p", "r", "e", "s", "s", "i", "o", "n", " ",
      "w", "i", "t", "h", " ", "2", " ", "o", "p", "e", "r", "a", "n", "d", "s", " ",
      "(", "e", ".", "g", ".", ",", " ", "2", " ", "+", " ", "3", ")", ":">>

ResultPrefix == <<"R", "e", "s", "u", "l", "t", ":", " ">>

DivisionByZero ==
    <<"D", "i", "v", "i", "s", "i", "o", "n", " ", "b", "y", " ", "z", "e", "r", "o", "!">>

InvalidExpression ==
    <<"I", "n", "v", "a", "l", "i", "d", " ", "e", "x", "p", "r", "e", "s", "s", "i",
      "o", "n", "!">>

(***************************************************************************)
(* State                                                                   *)
(***************************************************************************)
VARIABLES
    long_bits,     \* the width of long in this build: 32 or 64
    rx_buf,        \* static char rx_buf[MSG_SIZE]
    rx_buf_pos,    \* static int rx_buf_pos
    uart_msgq,     \* the messages in uart_msgq, oldest first
    rx_enabled,    \* uart_irq_rx_enable was called: serial_cb can run
    pc,            \* where main is
    tx_buf,        \* main's char tx_buf[MSG_SIZE]
    pr,            \* the print_uart call in progress: [buf, i, endl]
    isr_out,       \* the bytes serial_cb gave to uart_poll_out
    task_out,      \* the bytes main gave to uart_poll_out
    printk_log,    \* the messages main gave to printk
    rx_hist,       \* history: the bytes serial_cb read from the FIFO
    put_log,       \* history: each k_msgq_put: [msg, len, ok]
    eval_log,      \* history: each line main evaluated: [line, ret1, ret2, result, trap]
    input          \* history: what the input stream was made of (InitEval)

vars == <<long_bits, rx_buf, rx_buf_pos, uart_msgq, rx_enabled, pc, tx_buf, pr,
          isr_out, task_out, printk_log, rx_hist, put_log, eval_log, input>>

rx_vars == <<rx_buf, rx_buf_pos, isr_out, rx_hist, put_log>>

main_vars == <<pc, tx_buf, pr, task_out, printk_log, eval_log>>

ZeroBuf == [i \in 1..MSG_SIZE |-> NUL]

NoPrint == [buf |-> <<>>, i |-> 0, endl |-> 0]

NoInput == [kind |-> "stream"]

Init ==
    /\ long_bits \in {32, 64}
    /\ rx_buf = ZeroBuf
    /\ rx_buf_pos = 0
    /\ uart_msgq = <<>>
    /\ rx_enabled = FALSE
    /\ pc = "start"
    /\ tx_buf = ZeroBuf      \* uninitialized, and not read before k_msgq_get fills it
    /\ pr = NoPrint
    /\ isr_out = <<>>
    /\ task_out = <<>>
    /\ printk_log = <<>>
    /\ rx_hist = <<>>
    /\ put_log = <<>>
    /\ eval_log = <<>>
    /\ input = NoInput

(***************************************************************************)
(* serial_cb.  The line assembler's state is the record                    *)
(* [rx_buf, rx_buf_pos, uart_msgq, isr_out, put_log].                      *)
(***************************************************************************)

(* a queue that takes the message whatever it holds *)
k_msgq_put_unbounded(q, data) == [q |-> Append(q, data), ok |-> TRUE]

(* k_msgq_put(&uart_msgq, data, K_NO_WAIT): the message is copied to the   *)
(* queue, or, the queue holding max_msgs messages, -ENOMSG at once.        *)
k_msgq_put(q, data) ==
    IF Len(q) < MSGQ_MAX_MSGS
    THEN [q |-> Append(q, data), ok |-> TRUE]
    ELSE [q |-> q, ok |-> FALSE]

(* c == '\n' || c == '\r' *)
is_line_end(c) == c = LF \/ c = CR

(* the test without the slot kept for the terminator *)
rx_has_room_whole_buffer(pos) == pos < MSG_SIZE

(* the test that lets the cursor reach the last slot *)
rx_has_room_to_capacity(pos) == pos <= MSG_SIZE - 1

(* rx_buf_pos < (sizeof(rx_buf) - 1) *)
rx_has_room(pos) == pos < MSG_SIZE - 1

(* storing without moving the cursor *)
rx_store_in_place(s, c) ==
    [s EXCEPT !.rx_buf = [@ EXCEPT ![s.rx_buf_pos + 1] = c],
              !.isr_out = Append(@, c)]

(* rx_buf[rx_buf_pos++] = c; uart_poll_out(uart_dev, c); *)
rx_store(s, c) ==
    [s EXCEPT !.rx_buf = [@ EXCEPT ![s.rx_buf_pos + 1] = c],
              !.rx_buf_pos = @ + 1,
              !.isr_out = Append(@, c)]

(* the line end echoed only when the queue took the line *)
rx_line_end_quiet_drop(s) ==
    LET buf == [s.rx_buf EXCEPT ![s.rx_buf_pos + 1] = NUL]
        put == k_msgq_put(s.uart_msgq, buf)
    IN  [rx_buf |-> buf,
         rx_buf_pos |-> 0,
         uart_msgq |-> put.q,
         isr_out |-> IF put.ok THEN s.isr_out \o <<CR, LF>> ELSE s.isr_out,
         put_log |-> Append(s.put_log,
                            [msg |-> buf, len |-> s.rx_buf_pos, ok |-> put.ok])]

(* terminate string, echo "\r\n", k_msgq_put, rx_buf_pos = 0 *)
rx_line_end(s) ==
    LET buf == [s.rx_buf EXCEPT ![s.rx_buf_pos + 1] = NUL]
        put == k_msgq_put(s.uart_msgq, buf)
    IN  [rx_buf |-> buf,
         rx_buf_pos |-> 0,
         uart_msgq |-> put.q,
         isr_out |-> s.isr_out \o <<CR, LF>>,
         put_log |-> Append(s.put_log,
                            [msg |-> buf, len |-> s.rx_buf_pos, ok |-> put.ok])]

(* the loop body without the test for an empty buffer *)
serial_cb_byte_no_empty_test(s, c) ==
    IF is_line_end(c)
    THEN rx_line_end(s)
    ELSE IF rx_has_room(s.rx_buf_pos) THEN rx_store(s, c) ELSE s

(* the body of the while loop, for the byte c that uart_fifo_read returned *)
serial_cb_byte(s, c) ==
    IF is_line_end(c)
    THEN IF s.rx_buf_pos = 0 THEN s ELSE rx_line_end(s)
    ELSE IF rx_has_room(s.rx_buf_pos) THEN rx_store(s, c) ELSE s

(* read until FIFO empty *)
RECURSIVE serial_cb_loop(_, _)
serial_cb_loop(s, fifo) ==
    IF fifo = <<>> THEN s
    ELSE LET t == serial_cb_byte(s, Head(fifo))
         IN  \* t is computed before the next round, not within it
             IF t.rx_buf_pos >= 0 THEN serial_cb_loop(t, Tail(fifo)) ELSE t

RxState ==
    [rx_buf |-> rx_buf, rx_buf_pos |-> rx_buf_pos, uart_msgq |-> uart_msgq,
     isr_out |-> isr_out, put_log |-> put_log]

(***************************************************************************)
(* The bytes the serial line delivers.  An input language gives, for the   *)
(* bytes received so far, the bytes that can come next; the languages are  *)
(* the bounded families of input streams the specifications explore.       *)
(*   small: every stream of at most MaxStream bytes of SmallBytes, and     *)
(*          the stream Example;                                            *)
(*   burst: BurstLines short lines one after the other, more than the      *)
(*          queue holds;                                                   *)
(*   long:  a line of up to MSG_SIZE - 1 + MaxOverflow bytes, ended at any *)
(*          point by up to MaxLineEnds line ends, CR and LF in turn;       *)
(*   flood: a line of MSG_SIZE + 1 bytes and then one-byte lines, each     *)
(*          ended by CR LF, BurstLines lines in all.                       *)
(***************************************************************************)
MaxStream == 4

MaxFifo == 2

MaxDropped == 1

MaxOverflow == 9

MaxLineEnds == 2

SmallBytes == {"7", NUL, CR, LF}

Example == <<"1", "2", "+", "3", CR, LF>>

IsPrefix(h, t) == Len(h) <= Len(t) /\ SubSeq(t, 1, Len(h)) = h

BurstLines == MSGQ_MAX_MSGS + MaxDropped

(* the i-th line of the burst: "1/1", "2/2", "3/0", "hi", "5/2", ...; the  *)
(* first line beyond the queue's capacity is "-2147483648/-1"              *)
BurstLine(i) ==
    IF i = MSGQ_MAX_MSGS + 1 THEN FormatInt(INT_MIN) \o <<"/", "-", "1">>
    ELSE IF i % 4 = 0 THEN <<"h", "i">>
         ELSE <<Digits[(i % 10) + 1], "/", Digits[(i % 3) + 1]>>

RECURSIVE BurstStream(_)
BurstStream(n) == IF n = 0 THEN <<>> ELSE BurstStream(n - 1) \o BurstLine(n) \o <<CR>>

FillByte(i) == Digits[(i % 10) + 1]

RECURSIVE FloodStream(_)
FloodStream(n) ==
    IF n = 0 THEN <<>>
    ELSE IF n = 1 THEN [k \in 1..(MSG_SIZE + 1) |-> FillByte(k)] \o <<CR, LF>>
         ELSE FloodStream(n - 1) \o <<FillByte(n), CR, LF>>

LineEnds(h) == Cardinality({i \in 1..Len(h) : is_line_end(h[i])})

NextBytes(lang, h) ==
    CASE lang = "small" ->
           (IF Len(h) < MaxStream THEN SmallBytes ELSE {})
           \cup (IF Len(h) < Len(Example) /\ IsPrefix(h, Example)
                 THEN {Example[Len(h) + 1]} ELSE {})
      [] lang = "burst" ->
           LET all == BurstStream(BurstLines)
           IN  IF Len(h) < Len(all) THEN {all[Len(h) + 1]} ELSE {}
      [] lang = "flood" ->
           LET all == FloodStream(BurstLines)
           IN  IF Len(h) < Len(all) THEN {all[Len(h) + 1]} ELSE {}
      [] lang = "long" ->
           (IF LineEnds(h) = 0 /\ Len(h) < MSG_SIZE - 1 + MaxOverflow
            THEN {FillByte(Len(h) + 1)} ELSE {})
           \cup (IF LineEnds(h) = 0 THEN {CR, LF}
                 ELSE IF LineEnds(h) < MaxLineEnds
                      THEN {CR, LF} \ {h[Len(h)]} ELSE {})

RECURSIVE Continuations(_, _, _)
Continuations(lang, h, n) ==
    IF n = 0 THEN {<<>>}
    ELSE UNION {{<<c>> \o t : t \in Continuations(lang, Append(h, c), n - 1)} :
                c \in NextBytes(lang, h)}

(* One run of the interrupt callback.  irq_rx is what uart_irq_update and  *)
(* uart_irq_rx_ready answer; fifo is what the receive FIFO holds.          *)
serial_cb(lang) ==
    /\ rx_enabled
    /\ \E irq_rx \in BOOLEAN :
         IF ~irq_rx
         THEN UNCHANGED vars
         ELSE \E n \in 1..MaxFifo :
                \E fifo \in Continuations(lang, rx_hist, n) :
                  LET s == serial_cb_loop(RxState, fifo)
                  IN  /\ rx_buf' = s.rx_buf
                      /\ rx_buf_pos' = s.rx_buf_pos
                      /\ uart_msgq' = s.uart_msgq
                      /\ isr_out' = s.isr_out
                      /\ put_log' = s.put_log
                      /\ rx_hist' = rx_hist \o fifo
                      /\ UNCHANGED <<long_bits, rx_enabled, main_vars, input>>

(***************************************************************************)
(* main                                                                    *)
(***************************************************************************)
ENOTSUP == 134

ENOSYS == 88

EIO == 5

(* what uart_irq_callback_user_data_set can return *)
CallbackSetReturns == {0, -ENOTSUP, -ENOSYS, -EIO}

(* the string at the start of buf *)
CStr(buf) == SubSeq(buf, 1, strlen(buf, 1))

(* sprintf(buf, ...) producing the characters str: they and a NUL are      *)
(* written, the rest of buf is left as it was                              *)
sprintf(buf, str) ==
    [i \in 1..Len(buf) |->
       IF i <= Len(str) THEN str[i] ELSE IF i = Len(str) + 1 THEN NUL ELSE buf[i]]

(* print_uart that never writes the line end *)
print_uart_no_endl(buf, endl) == [buf |-> CStr(buf), i |-> 0, endl |-> 0]

(* print_uart(buf, endl) is entered: msg_len = strlen(buf), i = 0 *)
print_uart(buf, endl) == [buf |-> CStr(buf), i |-> 0, endl |-> endl]

(* device_is_ready, uart_irq_callback_user_data_set, uart_irq_rx_enable,   *)
(* up to the first print_uart                                              *)
main_start ==
    /\ pc = "start"
    /\ \E ready \in BOOLEAN, ret \in CallbackSetReturns :
         IF ~ready
         THEN /\ printk_log' = Append(printk_log, "UART device not found!")
              /\ pc' = "exit"
              /\ UNCHANGED <<rx_enabled, pr>>
         ELSE IF ret < 0
              THEN /\ printk_log' = Append(printk_log,
                        IF ret = -ENOTSUP
                        THEN "Interrupt-driven UART API support not enabled"
                        ELSE IF ret = -ENOSYS
                             THEN "UART device does not support interrupt-driven API"
                             ELSE "Error setting UART callback")
                   /\ pc' = "exit"
                   /\ UNCHANGED <<rx_enabled, pr>>
              ELSE /\ rx_enabled' = TRUE
                   /\ pr' = print_uart(Banner1 \o <<NUL>>, 1)
                   /\ pc' = "banner1"
                   /\ UNCHANGED printk_log
    /\ UNCHANGED <<long_bits, rx_vars, uart_msgq, tx_buf, task_out, eval_log, input>>

(* main going to its wait after the first print_uart *)
AfterPrint_first_only(at) == "wait"

(* where main goes on when print_uart returns *)
AfterPrint(at) == IF at = "banner1" THEN "banner2" ELSE "wait"

(* One uart_poll_out of print_uart: the next character of the string, then *)
(* with endl '\r' and '\n'; after the last one print_uart returns.         *)
print_uart_step ==
    /\ pc \in {"banner1", "banner2", "respond"}
    /\ LET len == Len(pr.buf)
           last == IF pr.endl # 0 THEN len + 1 ELSE len - 1
           c == IF pr.i < len THEN pr.buf[pr.i + 1] ELSE IF pr.i = len THEN CR ELSE LF
       IN  /\ task_out' = Append(task_out, c)
           /\ IF pr.i < last
              THEN /\ pr' = [pr EXCEPT !.i = @ + 1]
                   /\ pc' = pc
              ELSE /\ pc' = AfterPrint(pc)
                   /\ pr' = IF pc = "banner1" THEN print_uart(Banner2 \o <<NUL>>, 1)
                            ELSE NoPrint
    /\ UNCHANGED <<long_bits, rx_vars, uart_msgq, rx_enabled, tx_buf, printk_log,
                   eval_log, input>>

(* k_msgq_get taking the newest message *)
main_msgq_get_newest ==
    /\ pc = "wait"
    /\ uart_msgq # <<>>
    /\ tx_buf' = uart_msgq[Len(uart_msgq)]
    /\ uart_msgq' = SubSeq(uart_msgq, 1, Len(uart_msgq) - 1)
    /\ pc' = "eval"
    /\ UNCHANGED <<long_bits, rx_vars, rx_enabled, pr, task_out, printk_log, eval_log,
                   input>>

(* k_msgq_get(&uart_msgq, &tx_buf, K_FOREVER): blocks while the queue is   *)
(* empty, then copies the oldest message into tx_buf                       *)
main_msgq_get ==
    /\ pc = "wait"
    /\ uart_msgq # <<>>
    /\ tx_buf' = Head(uart_msgq)
    /\ uart_msgq' = Tail(uart_msgq)
    /\ pc' = "eval"
    /\ UNCHANGED <<long_bits, rx_vars, rx_enabled, pr, task_out, printk_log, eval_log,
                   input>>

(* The memory after tx_buf on main's stack, which eval_expression reads    *)
(* when it runs past the array: any bytes.                                 *)
MaxBeyond == 2

BeyondBytes == {NUL, "7", " "}

ReadsPast(buf, lbits) == \E o \in eval_expression(buf, lbits) : o.hi > Len(buf)

StackAfter(buf, lbits) ==
    IF ReadsPast(buf, lbits) THEN [1..MaxBeyond -> BeyondBytes] ELSE {<<>>}

(* the two error messages taken for each other *)
error_text_swapped(ret) ==
    IF ret = ERR_ZERO_DIV THEN InvalidExpression ELSE DivisionByZero

(* what main prints when the first eval_expression did not return ERR_NONE *)
(* and the second one returned ret                                         *)
error_text(ret) == IF ret = ERR_ZERO_DIV THEN DivisionByZero ELSE InvalidExpression

(* sprintf(tx_buf, "Result: %d", result) *)
result_text(result) == ResultPrefix \o FormatInt(result)

(* The body of the while loop of main, up to the print_uart of the answer. *)
(* A divide exception ends the thread.                                     *)
main_eval ==
    /\ pc = "eval"
    /\ \E m1 \in StackAfter(tx_buf, long_bits) :
         \E o1 \in eval_expression(tx_buf \o m1, long_bits) :
           LET entry == [line |-> tx_buf, ret1 |-> o1.ret, result |-> o1.result,
                         hi |-> o1.hi]
               once == [again |-> FALSE, ret2 |-> 0]
           IN  IF o1.trap
               THEN /\ pc' = "fault"
                    /\ eval_log' = Append(eval_log, entry @@ once @@ [trap |-> TRUE])
                    /\ UNCHANGED <<tx_buf, pr>>
               ELSE IF o1.ret = ERR_NONE
                    THEN /\ tx_buf' = sprintf(tx_buf, result_text(o1.result))
                         /\ pr' = print_uart(tx_buf', 1)
                         /\ pc' = "respond"
                         /\ eval_log' = Append(eval_log,
                                               entry @@ once @@ [trap |-> FALSE])
                    ELSE \E m2 \in StackAfter(tx_buf, long_bits) :
                           \E o2 \in eval_expression(tx_buf \o m2, long_bits) :
                             LET twice == [again |-> TRUE, ret2 |-> o2.ret]
                             IN  IF o2.trap
                                 THEN /\ pc' = "fault"
                                      /\ eval_log' = Append(eval_log,
                                             entry @@ twice @@ [trap |-> TRUE])
                                      /\ UNCHANGED <<tx_buf, pr>>
                                 ELSE /\ pr' = print_uart(error_text(o2.ret) \o <<NUL>>, 1)
                                      /\ pc' = "respond"
                                      /\ eval_log' = Append(eval_log,
                                             entry @@ twice @@ [trap |-> FALSE])
                                      /\ UNCHANGED tx_buf
    /\ UNCHANGED <<long_bits, rx_vars, uart_msgq, rx_enabled, task_out, printk_log,
                   input>>

(***************************************************************************)
(* The program from its start, under each input language                   *)
(***************************************************************************)
Next ==
    \/ main_start
    \/ print_uart_step
    \/ main_msgq_get
    \/ main_eval
    \/ serial_cb("small")

Spec == Init /\ [][Next]_vars

NextBurst ==
    \/ main_start
    \/ print_uart_step
    \/ main_msgq_get
    \/ main_eval
    \/ serial_cb("burst")

SpecBurst == Init /\ [][NextBurst]_vars

NextLong ==
    \/ main_start
    \/ print_uart_step
    \/ main_msgq_get
    \/ main_eval
    \/ serial_cb("long")

SpecLong == Init /\ [][NextLong]_vars

NextFlood ==
    \/ main_start
    \/ print_uart_step
    \/ main_msgq_get
    \/ main_eval
    \/ serial_cb("flood")

SpecFlood == Init /\ [][NextFlood]_vars

(***************************************************************************)
(* The program with one line received.  The banner is written, main is at  *)
(* its wait, and the callback has taken, from its first byte on, the bytes *)
(* of a stream: input says what the stream is.                             *)
(*   expr:  one line, made of whitespace, a first operand, whitespace, an  *)
(*          operator character, whitespace, a second operand, whitespace   *)
(*          and a tail, and CR;                                            *)
(*   lines: a few lines, each with its CR.                                 *)
(***************************************************************************)
MaxWs == 3

WsChars == <<" ", "\t", "\f", VT>>

(* n whitespace characters, for the gap at the given place of the line *)
Ws(place, n) == [k \in 1..n |-> WsChars[((place + k) % Len(WsChars)) + 1]]

Operators == {"+", "-", "*", "/", "%"}

OtherOperators == {"^", "x"}

IntOperand(v) == [txt |-> FormatInt(v), class |-> "int", val |-> v]

IntOperands ==
    {IntOperand(v) : v \in {0, 1, -1, 7, -3, 46341, 65536, INT_MAX, INT_MIN}}
    \cup {[txt |-> <<"+", "5">>, class |-> "int", val |-> 5],
          [txt |-> <<"0", "0", "7">>, class |-> "int", val |-> 7],
          [txt |-> <<"-", "0">>, class |-> "int", val |-> 0]}

(* operands outside the range of int: 2^32 and 2^31; val is not used *)
BigOperands ==
    {[txt |-> <<"4", "2", "9", "4", "9", "6", "7", "2", "9", "6">>, class |-> "big", val |-> 0],
     [txt |-> <<"2", "1", "4", "7", "4", "8", "3", "6", "4", "8">>, class |-> "big", val |-> 0]}

(* operands without a digit *)
NoOperands ==
    {[txt |-> <<"a", "b", "c">>, class |-> "none", val |-> 0],
     [txt |-> <<"-">>, class |-> "none", val |-> 0],
     [txt |-> <<>>, class |-> "none", val |-> 0]}

Operands == IntOperands \cup BigOperands \cup NoOperands

CoreFirst == {IntOperand(5)}

CoreSecond == {IntOperand(3), IntOperand(0)}

Tails == {<<>>, <<"g">>, <<"+", "1">>}

Gaps == [1..4 -> 0..MaxWs]

PlainGaps == {[k \in 1..4 |-> 0], [k \in 1..4 |-> 1]}

LineOf(i) ==
    Ws(1, i.ws[1]) \o i.a.txt \o Ws(2, i.ws[2]) \o <<i.op>> \o Ws(3, i.ws[3])
      \o i.b.txt \o Ws(4, i.ws[4]) \o i.tail

ExprInputs ==
    {i \in ([kind : {"expr"}, a : Operands, op : Operators \cup OtherOperators,
             b : Operands, ws : PlainGaps, tail : Tails]
            \cup [kind : {"expr"}, a : CoreFirst, op : {"+", "/", "^"},
                  b : CoreSecond, ws : Gaps, tail : {<<>>, <<"g">>}]) :
       Len(LineOf(i)) < MSG_SIZE}

RECURSIVE Concat(_)
Concat(ls) == IF ls = <<>> THEN <<>> ELSE Head(ls) \o <<CR>> \o Concat(Tail(ls))

StreamOf(i) == IF i.kind = "expr" THEN LineOf(i) \o <<CR>> ELSE Concat(i.lines)

BootRx ==
    [rx_buf |-> ZeroBuf, rx_buf_pos |-> 0, uart_msgq |-> <<>>, isr_out |-> <<>>,
     put_log |-> <<>>]

InitFrom(inputs) ==
    /\ long_bits \in {32, 64}
    /\ input \in inputs
    /\ LET s == serial_cb_loop(BootRx, StreamOf(input))
       IN  /\ rx_buf = s.rx_buf
           /\ rx_buf_pos = s.rx_buf_pos
           /\ uart_msgq = s.uart_msgq
           /\ isr_out = s.isr_out
           /\ put_log = s.put_log
    /\ rx_hist = StreamOf(input)
    /\ rx_enabled = TRUE
    /\ pc = "wait"
    /\ tx_buf = ZeroBuf
    /\ pr = NoPrint
    /\ task_out = Banner1 \o <<CR, LF>> \o Banner2 \o <<CR, LF>>
    /\ printk_log = <<>>
    /\ eval_log = <<>>

InitEval == InitFrom(ExprInputs)

(* main takes the line and evaluates it *)
NextEval ==
    \/ main_msgq_get
    \/ main_eval

SpecEval == InitEval /\ [][NextEval]_vars

MaxLines == 2

(* "7" and 30 blanks: a line of MSG_SIZE - 1 characters *)
LongLine == <<"7">> \o [k \in 1..(MSG_SIZE - 2) |-> " "]

Examples == <<<<"1", "0", " ", "/", " ", "2">>, <<"7", " ", "%", " ", "0">>, <<"h", "e", "l", "l", "o">>>>

CoreLines == {<<"1", "0", " ", "/", " ", "2">>, <<"7", " ", "%", " ", "0">>, <<"5">>,
              <<"9", "-", "4", "3">>}

SomeLines ==
    CoreLines \cup {<<"h", "e", "l", "l", "o">>, LongLine,
                    FormatInt(INT_MIN) \o <<"/", "-", "1">>}

(* lines that are a first operand and nothing more *)
OperandLines == {<<"5">>, LongLine, <<"-", "1", "2", " ", "\t">>}

(* streams of up to MaxLines of the core lines; a line alone; a line, a    *)
(* core line and the first line again; a line and then a line that is an   *)
(* operand only; and the three examples                                    *)
LineInputs ==
    [kind : {"lines"},
     lines : UNION {[1..n -> CoreLines] : n \in 1..MaxLines}
             \cup {<<x>> : x \in SomeLines}
             \cup {<<x, y, x>> : x \in SomeLines, y \in CoreLines}
             \cup {<<x, y>> : x \in SomeLines, y \in OperandLines}
             \cup {Examples}]

InitRespond == InitFrom(LineInputs)

(* main takes the lines one by one and answers them *)
NextRespond ==
    \/ main_msgq_get
    \/ main_eval
    \/ print_uart_step

SpecRespond == InitRespond /\ [][NextRespond]_vars

(***************************************************************************)
(* What the histories say, read off the received bytes and the written     *)
(* bytes alone                                                             *)
(***************************************************************************)

(* the members of the set of numbers S in ascending order *)
RECURSIVE Ascending(_)
Ascending(S) ==
    IF S = {} THEN <<>>
    ELSE LET m == CHOOSE x \in S : \A y \in S : x <= y
         IN  <<m>> \o Ascending(S \ {m})

(* the last member of S below e, or none *)
Before(S, e, none) ==
    IF \E x \in S : x < e THEN CHOOSE x \in S : x < e /\ \A y \in S : y < e => y <= x
    ELSE none

(* h cut at the positions ends, each taking width places: done, the runs   *)
(* of h that end at the positions of closing, in order; cur, what follows  *)
(* the last of ends                                                        *)
CutAt(h, ends, closing, width) ==
    [done |-> [k \in 1..Len(closing) |->
                 SubSeq(h, Before(ends, closing[k], 1 - width) + width, closing[k] - 1)],
     cur |-> SubSeq(h, Before(ends, Len(h) + 1, 1 - width) + width, Len(h))]

(* the positions of the line ends in h, and of those that end a line *)
LineEndsIn(h) == {i \in 1..Len(h) : h[i] = CR \/ h[i] = LF}

Closing(ends) == Ascending({i \in ends : i > 1 /\ (i - 1) \notin ends})

(* the received bytes cut at the line ends: done, the non-empty runs of    *)
(* bytes that a line end followed; cur, the bytes after the last line end  *)
Received == CutAt(rx_hist, LineEndsIn(rx_hist), Closing(LineEndsIn(rx_hist)), 1)

First(l, n) == SubSeq(l, 1, Min(Len(l), n))

(* the messages the queue accepted *)
Accepted == SelectSeq(put_log, LAMBDA e : e.ok)

(* the positions of the CR LF pairs in out *)
PairsIn(out) == {i \in 1..(Len(out) - 1) : out[i] = CR /\ out[i + 1] = LF}

(* what main wrote, cut at each CR LF pair: the lines written, and the rest *)
Written == CutAt(task_out, PairsIn(task_out), Ascending(PairsIn(task_out)), 2)

(* the lines main wrote after the two banner lines *)
ResponsesOf(w) == IF Len(w.done) <= 2 THEN <<>> ELSE SubSeq(w.done, 3, Len(w.done))

Responses == ResponsesOf(Written)

LineEnqueued(received, accepted) ==
    /\ Len(put_log) = Len(received.done)
    /\ \A i \in 1..Len(put_log) :
         LET line == First(received.done[i], MSG_SIZE - 1)
         IN  /\ put_log[i].len = Len(line)
             /\ SubSeq(put_log[i].msg, 1, Len(line)) = line
             /\ put_log[i].msg[Len(line) + 1] = NUL
    /\ Len(uart_msgq) <= Len(accepted)
    /\ \A k \in 1..Len(uart_msgq) :
         uart_msgq[k] = accepted[Len(accepted) - Len(uart_msgq) + k].msg

(***************************************************************************)
(* C1: every time a line end arrives with a non-empty buffer, the message  *)
(* handed to the queue holds exactly the bytes received since the previous *)
(* line end, in arrival order, cut to the first MSG_SIZE - 1 of them, with *)
(* the NUL after them; and the queue holds the accepted messages that main *)
(* has not taken yet, in that order.                                       *)
(***************************************************************************)
C1_LineEnqueued == LineEnqueued(Received, Accepted)

(* "12+3" CR LF has been received and the one line "12+3" is in the queue *)
C1_Witness ==
    /\ rx_hist = Example
    /\ Len(uart_msgq) = 1
    /\ CStr(uart_msgq[1]) = <<"1", "2", "+", "3">>
    /\ Len(put_log) = 1

OverflowTruncation(received) ==
    /\ Len(received.cur) > MSG_SIZE - 1 =>
         /\ rx_buf_pos = MSG_SIZE - 1
         /\ SubSeq(rx_buf, 1, MSG_SIZE - 1) = SubSeq(received.cur, 1, MSG_SIZE - 1)
         /\ \A c \in {FillByte(i) : i \in 0..9} \cup {NUL} :
              serial_cb_byte(RxState, c) = RxState
    /\ Len(put_log) = Len(received.done)
    /\ \A i \in 1..Len(put_log) :
         Len(received.done[i]) > MSG_SIZE - 1 =>
           /\ put_log[i].len = MSG_SIZE - 1
           /\ SubSeq(put_log[i].msg, 1, MSG_SIZE - 1)
                = SubSeq(received.done[i], 1, MSG_SIZE - 1)
           /\ put_log[i].msg[MSG_SIZE] = NUL

(***************************************************************************)
(* C2: once more than MSG_SIZE - 1 bytes have arrived since the last line  *)
(* end, the cursor stays at MSG_SIZE - 1 and the buffer keeps the first    *)
(* MSG_SIZE - 1 of them: a further byte changes nothing; and the line end  *)
(* that follows hands over one message, of exactly those MSG_SIZE - 1      *)
(* bytes.                                                                  *)
(***************************************************************************)
C2_OverflowTruncation == OverflowTruncation(Received)

(* 40 bytes and a line end have been received, and one line of 31 bytes    *)
(* was handed to the queue                                                 *)
C2_Witness ==
    /\ Len(rx_hist) = MSG_SIZE + 9
    /\ LineEndsIn(rx_hist) = {MSG_SIZE + 9}
    /\ Len(put_log) = 1
    /\ put_log[1].len = MSG_SIZE - 1
    /\ SubSeq(put_log[1].msg, 1, MSG_SIZE - 1) = SubSeq(rx_hist, 1, MSG_SIZE - 1)

(***************************************************************************)
(* C3: a line end arriving while the cursor is 0 changes nothing, so the   *)
(* messages handed to the queue are as many as the line ends that directly *)
(* follow a byte that is not one, and every message handed to the queue,   *)
(* and so every message in it, is a line of at least one byte.             *)
(***************************************************************************)
C3_NoEmptyLine ==
    /\ rx_buf_pos = 0 =>
         /\ serial_cb_byte(RxState, CR) = RxState
         /\ serial_cb_byte(RxState, LF) = RxState
    /\ Len(put_log) =
         Cardinality({i \in 2..Len(rx_hist) :
                        is_line_end(rx_hist[i]) /\ ~is_line_end(rx_hist[i - 1])})
    /\ \A i \in 1..Len(put_log) : put_log[i].len >= 1
    /\ \A k \in 1..Len(uart_msgq) :
         \E i \in 1..Len(put_log) : put_log[i].msg = uart_msgq[k] /\ put_log[i].len >= 1

(* a byte, then CR, then LF or CR again: one line *)
C3_Witness ==
    /\ Len(rx_hist) = 3
    /\ ~is_line_end(rx_hist[1])
    /\ rx_hist[2] = CR
    /\ is_line_end(rx_hist[3])
    /\ Len(put_log) = 1
    /\ rx_buf_pos = 0

Faults == Len(SelectSeq(eval_log, LAMBDA e : e.trap))

IsResponse(l, e) ==
    \/ l = DivisionByZero
    \/ l = InvalidExpression
    \/ l = ResultPrefix \o FormatInt(e.result)

OneResponsePerAcceptedLine(responses, accepted, faults) ==
    /\ Len(eval_log) + (IF pc = "eval" THEN 1 ELSE 0) + Len(uart_msgq) = Len(accepted)
    /\ \A k \in 1..Len(eval_log) : eval_log[k].line = accepted[k].msg
    /\ pc \in {"wait", "eval", "respond", "fault"} =>
         /\ Len(responses) = Len(eval_log) - faults - (IF pc = "respond" THEN 1 ELSE 0)
         /\ \A k \in 1..Len(responses) : IsResponse(responses[k], eval_log[k])
    /\ faults > 0 => pc = "fault" /\ eval_log[Len(eval_log)].trap

QueueBoundedDropSilent(received, accepted) ==
    /\ Len(uart_msgq) <= MSGQ_MAX_MSGS
    /\ (Len(uart_msgq) = MSGQ_MAX_MSGS /\ rx_buf_pos > 0) =>
         \A c \in {CR, LF} :
           LET s == serial_cb_byte(RxState, c)
           IN  /\ s.uart_msgq = uart_msgq
               /\ s.rx_buf_pos = 0
               /\ s.isr_out = isr_out \o <<CR, LF>>
               /\ Len(s.put_log) = Len(put_log) + 1
               /\ ~s.put_log[Len(s.put_log)].ok
    /\ Len(put_log) = Len(received.done)
    /\ rx_buf_pos = Min(Len(received.cur), MSG_SIZE - 1)
    /\ Len(put_log) - Len(accepted) > 0 => Len(accepted) >= MSGQ_MAX_MSGS

(***************************************************************************)
(* C10: the queue never holds more than MSGQ_MAX_MSGS messages; when a     *)
(* line end arrives with a non-empty buffer and the queue is full, the     *)
(* callback goes on: the queue is as it was, the cursor is 0, and CR LF    *)
(* and nothing else is written; every line completed was accepted or       *)
(* refused at once, and a refused one was refused by a full queue.         *)
(***************************************************************************)
C10_QueueBoundedDropSilent == QueueBoundedDropSilent(Received, Accepted)

(* a line was refused while the queue held MSGQ_MAX_MSGS lines, which it   *)
(* still holds                                                             *)
C10_Witness ==
    /\ Len(uart_msgq) = MSGQ_MAX_MSGS
    /\ Len(put_log) = MSGQ_MAX_MSGS + 1
    /\ ~put_log[MSGQ_MAX_MSGS + 1].ok
    /\ \A k \in 1..MSGQ_MAX_MSGS : uart_msgq[k] = put_log[k].msg
    /\ rx_buf_pos = 0

(***************************************************************************)
(* What a line <a><op><b> means, from its operands and operator alone      *)
(***************************************************************************)

(* the line is an integer, one of the five operators and an integer, with  *)
(* whitespace around them and nothing else                                 *)
WellFormed(i) ==
    /\ i.a.class # "none"
    /\ i.b.class # "none"
    /\ i.op \in Operators
    /\ i.tail = <<>>

Magnitude(v) == IF v < 0 THEN -v ELSE v

(* a * b lies in INT_MIN..INT_MAX *)
ProductFits(a, b) ==
    IF a = 0 \/ b = 0 THEN TRUE
    ELSE IF a = INT_MIN THEN b = 1
    ELSE IF b = INT_MIN THEN a = 1
    ELSE LET x == Magnitude(a)
             y == Magnitude(b)
         IN  \/ x <= INT_MAX \div y
             \/ /\ (a > 0) # (b > 0)
                /\ x = (INT_MAX \div y) + 1
                /\ INT_MAX % y = y - 1

(* the quotient of a by b truncated toward zero, for b # 0, b # INT_MIN    *)
(* and (a, b) # (INT_MIN, -1)                                              *)
Quotient(a, b) ==
    LET y == Magnitude(b)
        minus == IF a = INT_MIN
                 THEN -(INT_MAX \div y) - (IF INT_MAX % y = y - 1 THEN 1 ELSE 0)
                 ELSE -(Magnitude(a) \div y)
    IN  IF (a >= 0) = (b > 0) THEN -minus ELSE minus

(* the number the digits ds write, modulo m *)
RECURSIVE DecMod(_, _)
DecMod(ds, m) ==
    IF ds = <<>> THEN 0
    ELSE (DecMod(SubSeq(ds, 1, Len(ds) - 1), m) * 10 + DigitVal(ds[Len(ds)])) % m

(* The exact result of the line, where it is known and fits an int:        *)
(* [known, val].  For operands outside the range of int it is known for    *)
(* big % small, for small / big and small % big, and for 0 * big.          *)
ExactResult(i) ==
    LET a == i.a.val
        b == i.b.val
        yes(v) == [known |-> TRUE, val |-> v]
        no == [known |-> FALSE, val |-> 0]
    IN  IF ~WellFormed(i) THEN no
        ELSE IF i.a.class = "int" /\ i.b.class = "int"
        THEN CASE i.op = "+" ->
                    IF (IF b >= 0 THEN a <= INT_MAX - b ELSE a >= INT_MIN - b)
                    THEN yes(a + b) ELSE no
               [] i.op = "-" ->
                    IF (IF b >= 0 THEN a >= INT_MIN + b ELSE a <= INT_MAX + b)
                    THEN yes(a - b) ELSE no
               [] i.op = "*" -> IF ProductFits(a, b) THEN yes(a * b) ELSE no
               [] i.op = "/" ->
                    IF b = 0 \/ (a = INT_MIN /\ b = -1) THEN no
                    ELSE IF b = INT_MIN THEN yes(IF a = INT_MIN THEN 1 ELSE 0)
                    ELSE yes(Quotient(a, b))
               [] i.op = "%" ->
                    IF b = 0 THEN no
                    ELSE IF b = INT_MIN THEN yes(IF a = INT_MIN THEN 0 ELSE a)
                    ELSE IF a = INT_MIN /\ b = -1 THEN yes(0)
                    ELSE yes(a - Quotient(a, b) * b)
        ELSE IF i.a.class = "big" /\ i.b.class = "int"
        THEN IF i.op = "%" /\ b # 0 /\ b >= -1000 /\ b <= 1000
             THEN yes(DecMod(i.a.txt, Magnitude(b)))
             ELSE IF i.op = "*" /\ b = 0 THEN yes(0) ELSE no
        ELSE IF i.a.class = "int" /\ i.b.class = "big"
        THEN IF i.op = "/" /\ a # INT_MIN THEN yes(0)
             ELSE IF i.op = "%" /\ a # INT_MIN THEN yes(a)
             ELSE IF i.op = "*" /\ a = 0 THEN yes(0) ELSE no
        ELSE no

(***************************************************************************)
(* C5: for every line <a><op><b> with integers a and b and one of the five *)
(* operators, b not 0 for / and %, and any whitespace around them,         *)
(* eval_expression returns ERR_NONE and the exact result of the operation, *)
(* whenever that result fits an int.                                       *)
(***************************************************************************)
C5_ExactResult ==
    \A k \in 1..Len(eval_log) :
      (input.kind = "expr" /\ ExactResult(input).known) =>
        /\ ~eval_log[k].trap
        /\ eval_log[k].ret1 = ERR_NONE
        /\ eval_log[k].result = ExactResult(input).val

(* the second operand is zero and the operator divides *)
DividesByZero(i) ==
    /\ WellFormed(i)
    /\ i.op \in {"/", "%"}
    /\ i.b.class = "int"
    /\ i.b.val = 0

(***************************************************************************)
(* C6: eval_expression returns ERR_ZERO_DIV for every well-formed line     *)
(* whose operator is / or % and whose second operand is 0, and for no      *)
(* other line.                                                             *)
(***************************************************************************)
C6_DivisionByZero ==
    \A k \in 1..Len(eval_log) :
      input.kind = "expr" =>
        /\ DividesByZero(input) => ~eval_log[k].trap /\ eval_log[k].ret1 = ERR_ZERO_DIV
        /\ eval_log[k].ret1 = ERR_ZERO_DIV => DividesByZero(input)

(* the first character of line at or after p that is not whitespace *)
FirstNonSpace(line, p) ==
    CHOOSE j \in p..(Len(line) + 1) :
      /\ j = Len(line) + 1 \/ line[j] \notin {" ", "\t", "\n", VT, "\f", "\r"}
      /\ \A k \in p..(j - 1) : line[k] \in {" ", "\t", "\n", VT, "\f", "\r"}

(* no number starts at p: after whitespace and a sign there is no digit *)
NoNumberAt(line, p) ==
    LET q == FirstNonSpace(line, p)
        r == IF At(line, q) \in {"+", "-"} THEN q + 1 ELSE q
    IN  At(line, r) \notin {"0", "1", "2", "3", "4", "5", "6", "7", "8", "9"}

(* the line has one of the four defects: no digits for the first operand;  *)
(* or, after a first operand, an operator character that is none of the    *)
(* five, no digits for the second operand, or something after it           *)
Malformed(i) ==
    \/ NoNumberAt(LineOf(i), 1)
    \/ /\ i.a.class # "none"
       /\ \/ i.op \notin Operators
          \/ NoNumberAt(LineOf(i), i.ws[1] + Len(i.a.txt) + i.ws[2] + 2)
          \/ i.b.class # "none" /\ i.tail # <<>>

IsResultLine(l, n) ==
    LET d == SubSeq(l, Len(ResultPrefix) + 1, Len(l))
    IN  /\ Len(l) > Len(ResultPrefix)
        /\ SubSeq(l, 1, Len(ResultPrefix)) = ResultPrefix
        /\ d[1] # "+"
        /\ d[1] = "0" => Len(d) = 1
        /\ (d[1] = "-" /\ Len(d) > 1) => d[2] # "0"
        /\ strtol(d \o <<NUL>>, 1, 32) = [val |-> n, endptr |-> Len(d) + 1, hi |-> Len(d) + 1]

ResponseByOutcome(responses) ==
    /\ \A k \in 1..Len(eval_log) :
         LET e == eval_log[k]
         IN  /\ e.again => e.ret2 = e.ret1
             /\ e.again = (~e.trap /\ e.ret1 # ERR_NONE)
    /\ (pc = "respond" /\ eval_log[Len(eval_log)].again) =>
         tx_buf = eval_log[Len(eval_log)].line
    /\ Len(responses) <= Len(eval_log)
    /\ \A k \in 1..Len(responses) :
         LET e == eval_log[k]
             l == responses[k]
         IN  /\ ~e.trap
             /\ e.ret1 = ERR_NONE <=> IsResultLine(l, e.result)
             /\ e.ret1 = ERR_ZERO_DIV <=> l = DivisionByZero
             /\ e.ret1 \notin {ERR_NONE, ERR_ZERO_DIV} <=> l = InvalidExpression

(***************************************************************************)
(* C8: the response main writes for a line is "Result: <n>" exactly when   *)
(* eval_expression returned ERR_NONE with result n, "Division by zero!"    *)
(* exactly when it returned ERR_ZERO_DIV, and "Invalid expression!"        *)
(* otherwise; the second call, made when the first did not return          *)
(* ERR_NONE, returns what the first returned, and the line buffer is then  *)
(* still the line that was evaluated.                                      *)
(***************************************************************************)
C8_ResponseByOutcome == ResponseByOutcome(Responses)

(* "10 / 2", "7 % 0" and "hello" were answered *)
C8_Witness ==
    /\ input.kind = "lines"
    /\ input.lines = Examples
    /\ pc = "wait"
    /\ Responses = <<<<"R", "e", "s", "u", "l", "t", ":", " ", "5">>, <<"D", "i", "v", "i", "s", "i", "o", "n", " ", "b", "y", " ", "z", "e", "r", "o", "!">>, <<"I", "n", "v", "a", "l", "i", "d", " ", "e", "x", "p", "r", "e", "s", "s", "i", "o", "n", "!">>>>

(***************************************************************************)
(* C9: two evaluations of the same line return the same value and give the *)
(* same result, whatever was evaluated in between and whatever the bytes   *)
(* after the line's NUL in its slot and after the slot are.                *)
(***************************************************************************)
C9_SameLineSameOutcome ==
    \A j \in 1..Len(eval_log), k \in 1..Len(eval_log) :
      LET d == eval_log[j]
          e == eval_log[k]
      IN  (CStr(d.line) = CStr(e.line) /\ ~d.trap /\ ~e.trap) =>
            /\ d.ret1 = e.ret1
            /\ d.result = e.result
            /\ d.again = e.again
            /\ d.ret2 = e.ret2

(* "5" was evaluated twice, "9-43" in between: the second time what is     *)
(* left of "9-43" follows its NUL                                          *)
C9_Witness ==
    /\ input.kind = "lines"
    /\ input.lines = <<<<"5">>, <<"9", "-", "4", "3">>, <<"5">>>>
    /\ Len(eval_log) = 3
    /\ CStr(eval_log[1].line) = CStr(eval_log[3].line)
    /\ eval_log[1].line # eval_log[3].line
    /\ eval_log[3].line[3] = "4"

(***************************************************************************)
(* The receive buffer and its cursor                                       *)
(***************************************************************************)

(* the byte values a line can be made of, and the two line ends *)
SomeBytes == {FillByte(i) : i \in 0..9} \cup {NUL, CR, LF}

(* What taking the byte c in the assembler state s writes to rx_buf: at,   *)
(* the index written (-1: none), which is the cursor of s; data, whether   *)
(* the byte written is the received one; and the indices whose content     *)
(* differs afterwards.                                                     *)
RxWrite(s, c) ==
    LET t == serial_cb_byte(s, c)
        stored == t.rx_buf_pos = s.rx_buf_pos + 1
        ended == Len(t.put_log) = Len(s.put_log) + 1
    IN  [at |-> IF stored \/ ended THEN s.rx_buf_pos ELSE -1,
         data |-> stored,
         byte |-> IF stored THEN c ELSE NUL,
         after |-> t.rx_buf,
         differ |-> {i \in 0..(MSG_SIZE - 1) : t.rx_buf[i + 1] # s.rx_buf[i + 1]}]

(***************************************************************************)
(* C11: the cursor is in 0..MSG_SIZE - 1 and rx_buf has its MSG_SIZE       *)
(* slots; whatever byte comes next, the callback writes at most one slot,  *)
(* the one at the cursor, so at an index in 0..MSG_SIZE - 1; a received    *)
(* byte is written at an index below MSG_SIZE - 1; the last slot has held  *)
(* nothing but NUL.                                                        *)
(***************************************************************************)
C11_CursorAndWritesInBounds ==
    /\ rx_buf_pos \in 0..(MSG_SIZE - 1)
    /\ DOMAIN rx_buf = 1..MSG_SIZE
    /\ rx_buf[MSG_SIZE] = NUL
    /\ \A i \in 1..Len(put_log) : put_log[i].msg[MSG_SIZE] = NUL
    /\ \A c \in SomeBytes :
         LET w == RxWrite(RxState, c)
         IN  /\ w.at \in -1..(MSG_SIZE - 1)
             /\ w.differ \subseteq {w.at}
             /\ w.at >= 0 => w.after[w.at + 1] = w.byte
             /\ w.data => w.at < MSG_SIZE - 1
             /\ (w.at = MSG_SIZE - 1) => (is_line_end(c) /\ w.byte = NUL)

(* the cursor is at MSG_SIZE - 1 with more bytes received than that, the   *)
(* slot before the last holds a byte and a line end now writes the NUL     *)
(* into the last slot                                                      *)
C11_Witness ==
    /\ rx_buf_pos = MSG_SIZE - 1
    /\ Len(rx_hist) > MSG_SIZE
    /\ rx_buf[MSG_SIZE - 1] # NUL
    /\ RxWrite(RxState, CR).at = MSG_SIZE - 1
    /\ ~RxWrite(RxState, CR).data

(***************************************************************************)
(* The program with its thread scheduled fairly: main is a thread of its   *)
(* own, so a step it can take is taken in the end, whatever the interrupts *)
(* do in between.  Nothing is asked of the serial line.  The step of       *)
(* main_eval is told here by where main is before and after it, and its    *)
(* fairness is stated on pc: main_eval can be taken whenever pc = "eval",  *)
(* eval_expression having an outcome for every buffer, it takes main to    *)
(* "respond" or "fault", and no other step takes main away from "eval".    *)
(***************************************************************************)
main_eval_step == pc = "eval" /\ pc' \in {"respond", "fault"}

SpecBurstFair ==
    /\ Init
    /\ [][NextBurst]_vars
    /\ WF_vars(main_start)
    /\ WF_vars(print_uart_step)
    /\ WF_vars(main_msgq_get)
    /\ WF_pc(main_eval_step)

(***************************************************************************)
(* C12: main, once it has taken a line, is back at its wait on the queue   *)
(* in the end, and the k-th line the queue accepted is answered in the     *)
(* end: after the two banner lines, a k-th line is written.                *)
(***************************************************************************)
C12_EveryAcceptedLineAnswered ==
    /\ (pc = "eval") ~> (pc = "wait")
    /\ \A k \in 1..BurstLines :
         (Len(Accepted) >= k) ~> (Cardinality(PairsIn(task_out)) >= 2 + k)

(***************************************************************************)
(* C13: none of the accumulated bytes of a line handed to the queue is NUL *)
(* so the string main reads from the message is the whole line.            *)
(***************************************************************************)
C13_NullFreeLines ==
    \A i \in 1..Len(put_log) :
      /\ \A k \in 1..put_log[i].len : put_log[i].msg[k] # NUL
      /\ strlen(put_log[i].msg, 1) = put_log[i].len

(***************************************************************************)
(* The one output stream.  Both contexts write with uart_poll_out to the   *)
(* same device, so the stream is the bytes of isr_out and of task_out in   *)
(* the order of the steps that wrote them.                                 *)
(***************************************************************************)

(* main has written a part of a line: the print_uart in progress has       *)
(* written at least one byte and not yet its LF                            *)
MidLine == pc \in {"banner1", "banner2", "respond"} /\ pr.i > 0

(***************************************************************************)
(* C14: no step of the callback writes a byte while main is within a line, *)
(* so the bytes of each line main writes are next to each other in the     *)
(* output stream; and each context only ever adds bytes after the ones it  *)
(* wrote before.                                                           *)
(***************************************************************************)
C14_NoInterleaving ==
    [][/\ (isr_out' # isr_out) => ~MidLine
       /\ IsPrefix(isr_out, isr_out')
       /\ IsPrefix(task_out, task_out')]_vars

(***************************************************************************)
(* Startup                                                                 *)
(***************************************************************************)
BannerText == Banner1 \o <<CR, LF>> \o Banner2 \o <<CR, LF>>

StartupThenBanner(w) ==
    /\ pc = "start" => (task_out = <<>> /\ ~rx_enabled /\ printk_log = <<>>)
    /\ pc = "exit" =>
         /\ task_out = <<>>
         /\ ~rx_enabled
         /\ rx_hist = <<>> /\ uart_msgq = <<>> /\ eval_log = <<>>
         /\ Len(printk_log) = 1
    /\ pc \in {"banner1", "banner2"} =>
         /\ rx_enabled /\ printk_log = <<>>
         /\ IsPrefix(task_out, BannerText) /\ task_out # BannerText
         /\ eval_log = <<>>
    /\ pc \in {"wait", "eval", "respond", "fault"} =>
         /\ rx_enabled /\ printk_log = <<>>
         /\ IsPrefix(BannerText, task_out)
         /\ \A k \in 3..Len(w.done) : w.done[k] # Banner1 /\ w.done[k] # Banner2
    /\ eval_log # <<>> => IsPrefix(BannerText, task_out)

(***************************************************************************)
(* C15: when main has returned at startup (the device not ready, or the    *)
(* callback not set) it has written nothing, reception is not enabled, no  *)
(* byte was received and no line evaluated, and one message was logged;    *)
(* otherwise reception is enabled and what main writes starts with the two *)
(* banner lines, in order, all of them written before main first waits for *)
(* a line, and none of the lines written after them is a banner line.      *)
(***************************************************************************)
C15_StartupThenBanner == StartupThenBanner(Written)

(* the two banner lines and then one response were written *)
C15_Witness ==
    /\ pc = "wait"
    /\ Len(eval_log) = 1
    /\ Len(task_out) > Len(BannerText)
    /\ SubSeq(task_out, 1, Len(BannerText)) = BannerText
    /\ Len(Written.done) = 3

(***************************************************************************)
(* The order of the responses                                              *)
(***************************************************************************)

(* the line main writes for the outcome o of eval_expression *)
TextOf(o) == IF o.ret = ERR_NONE THEN result_text(o.result) ELSE error_text(o.ret)

FifoOrder(responses, accepted) ==
    LET taken == Len(eval_log) + (IF pc = "eval" THEN 1 ELSE 0)
    IN  /\ taken + Len(uart_msgq) = Len(accepted)
        /\ \A k \in 1..Len(uart_msgq) : uart_msgq[k] = accepted[taken + k].msg
        /\ pc = "eval" => tx_buf = accepted[taken].msg
        /\ \A k \in 1..Len(eval_log) : eval_log[k].line = accepted[k].msg
        /\ Len(responses) <= Len(eval_log)
        /\ \A k \in 1..Len(responses) :
             \E m \in StackAfter(accepted[k].msg, long_bits) :
               \E o \in eval_expression(accepted[k].msg \o m, long_bits) :
                 ~o.trap /\ responses[k] = TextOf(o)

(***************************************************************************)
(* C16: the k-th response main wrote is the answer to the k-th message the *)
(* queue accepted, as that message was when it was handed over; the queue  *)
(* holds the accepted messages not yet taken, in the order of acceptance   *)
(* and as they were handed over, and so does tx_buf the one main is about  *)
(* to evaluate, whatever was received since.                               *)
(***************************************************************************)
C16_FifoOrder == FifoOrder(Responses, Accepted)

(* three lines are answered, main is about to evaluate the fourth, at      *)
(* least two more wait in the queue and the next one is being received     *)
C16_Witness ==
    /\ Len(Responses) = 3
    /\ pc = "eval"
    /\ Len(uart_msgq) >= 2
    /\ rx_buf_pos > 0
    /\ rx_buf # tx_buf
    /\ Responses[2] # Responses[3]

(***************************************************************************)
(* The echo                                                                *)
(***************************************************************************)

(* the first MSG_SIZE - 1 bytes of each of the lines, CR LF after each *)
RECURSIVE EchoOfLines(_)
EchoOfLines(lines) ==
    IF lines = <<>> THEN <<>>
    ELSE First(Head(lines), MSG_SIZE - 1) \o <<CR, LF>> \o EchoOfLines(Tail(lines))

EchoMirrorsAccepted(received) ==
    /\ isr_out = EchoOfLines(received.done) \o First(received.cur, MSG_SIZE - 1)
    /\ \A c \in SomeBytes :
         LET t == serial_cb_byte(RxState, c)
         IN  t.isr_out =
               IF t.rx_buf_pos = rx_buf_pos + 1 THEN Append(isr_out, c)
               ELSE IF t.rx_buf = rx_buf /\ t.rx_buf_pos = rx_buf_pos
                       /\ ~(is_line_end(c) /\ rx_buf_pos > 0)
                    THEN isr_out
                    ELSE isr_out \o <<CR, LF>>
    /\ rx_buf_pos = MSG_SIZE - 1 =>
         \A c \in SomeBytes \ {CR, LF} : serial_cb_byte(RxState, c).isr_out = isr_out
    /\ rx_buf_pos = 0 =>
         \A c \in {CR, LF} : serial_cb_byte(RxState, c).isr_out = isr_out
    /\ rx_buf_pos > 0 =>
         \A c \in {CR, LF} : serial_cb_byte(RxState, c).isr_out = isr_out \o <<CR, LF>>

(***************************************************************************)
(* C17: what the callback wrote is, for each line completed, its first     *)
(* MSG_SIZE - 1 bytes and CR LF, and then the first MSG_SIZE - 1 bytes of  *)
(* the line being received: a byte stored is echoed once and in order, a   *)
(* byte arriving with the buffer full and a line end arriving with the     *)
(* buffer empty write nothing, and a line end arriving with a non-empty    *)
(* buffer writes CR LF, whether the queue takes the line or not.           *)
(***************************************************************************)
C17_EchoMirrorsAccepted == EchoMirrorsAccepted(Received)

(* the first line was cut to MSG_SIZE - 1 bytes, the last line was refused *)
(* by the full queue and its CR LF echoed, and the LF after it was ignored *)
C17_Witness ==
    /\ rx_hist = FloodStream(BurstLines)
    /\ put_log[1].len = MSG_SIZE - 1
    /\ ~put_log[Len(put_log)].ok
    /\ Len(isr_out) = (MSG_SIZE - 1) + 2 + 3 * (BurstLines - 1)
    /\ SubSeq(isr_out, Len(isr_out) - 2, Len(isr_out)) = <<FillByte(BurstLines), CR, LF>>

(***************************************************************************)
(* Lines that end after the first operand                                  *)
(***************************************************************************)

(* l is an integer, with or without a sign, and then whitespace or nothing *)
OperandOnly(l) ==
    \E n \in 1..Len(l) :
      LET d == IF l[1] \in {"+", "-"} THEN 2 ELSE 1
      IN  /\ d <= n
          /\ \A k \in d..n : isdigit(l[k])
          /\ \A k \in (n + 1)..Len(l) : isspace(l[k])

(* what can be left of an earlier line after the NUL of a shorter one *)
StaleTails ==
    {<<"/", "0">>, <<"0">>, <<"+", "3">>, <<" ", "7", " ">>, <<"%", "0", NUL, "9">>,
     <<" ", "/", " ", "2">>}

(* the slot with the line l, its NUL and then t, where that fits *)
SlotWith(l, t) ==
    [k \in 1..MSG_SIZE |->
       IF k <= Len(l) THEN l[k]
       ELSE IF k > Len(l) + 1 /\ k <= Len(l) + 1 + Len(t) THEN t[k - Len(l) - 1]
            ELSE NUL]

OperandOnlyInvalid(responses) ==
    /\ \A k \in 1..Len(eval_log) :
         LET e == eval_log[k]
         IN  OperandOnly(CStr(e.line)) =>
               /\ ~e.trap
               /\ e.ret1 = ERR_INVALID_EXPR
               /\ e.again /\ e.ret2 = ERR_INVALID_EXPR
               /\ k <= Len(responses) => responses[k] = InvalidExpression
    /\ (pc = "eval" /\ OperandOnly(CStr(tx_buf))) =>
         \A t \in StaleTails :
           LET slot == SlotWith(CStr(tx_buf), t)
           IN  \A m \in StackAfter(slot, long_bits) :
                 \A o \in eval_expression(slot \o m, long_bits) :
                   ~o.trap /\ o.ret = ERR_INVALID_EXPR

BytesOf(v) ==
    LET u == IF v < 0 THEN (v + INT_MAX) + 1 ELSE v
    IN  [k \in 0..3 |->
           ((u \div <<1, 256, 65536, 16777216>>[k + 1]) % 256)
             + (IF k = 3 /\ v < 0 THEN 128 ELSE 0)]

(* the int whose four bytes are b *)
IntOf(b) ==
    (IF b[3] >= 128 THEN b[3] - 256 ELSE b[3]) * 16777216
      + (b[2] * 65536 + b[1] * 256 + b[0])

(* the low four bytes of x + y + cin *)
SumBytes(x, y, cin) ==
    LET c[k \in 0..3] == IF k = 0 THEN cin ELSE (x[k - 1] + y[k - 1] + c[k - 1]) \div 256
    IN  [k \in 0..3 |-> (x[k] + y[k] + c[k]) % 256]

(* the low four bytes of x * y *)
ProductBytes(x, y) ==
    LET col[k \in 0..3] ==
            LET part[i \in 0..k] ==
                    x[i] * y[k - i] + (IF i = 0 THEN 0 ELSE part[i - 1])
            IN  part[k]
        t[k \in 0..3] == col[k] + (IF k = 0 THEN 0 ELSE t[k - 1] \div 256)
    IN  [k \in 0..3 |-> t[k] % 256]

(* a op b modulo 2^32, in INT_MIN..INT_MAX *)
Wrapped(a, op, b) ==
    LET x == BytesOf(a)
        y == BytesOf(b)
    IN  IntOf(CASE op = "+" -> SumBytes(x, y, 0)
                [] op = "-" -> SumBytes(x, [k \in 0..3 |-> 255 - y[k]], 1)
                [] op = "*" -> ProductBytes(x, y))

(* the line is a + b, a - b or a * b with a and b in the range of int *)
PlainArithmetic(i) ==
    /\ i.kind = "expr"
    /\ WellFormed(i)
    /\ i.a.class = "int" /\ i.b.class = "int"
    /\ i.op \in {"+", "-", "*"}

(***************************************************************************)
(* C19: for a line a + b, a - b or a * b with a and b in the range of int, *)
(* eval_expression returns ERR_NONE and the exact result modulo 2^32 in    *)
(* the range of int, also when the exact result is outside that range.     *)
(***************************************************************************)
C19_Wraparound ==
    \A k \in 1..Len(eval_log) :
      PlainArithmetic(input) =>
        /\ ~eval_log[k].trap
        /\ eval_log[k].ret1 = ERR_NONE
        /\ eval_log[k].result = Wrapped(input.a.val, input.op, input.b.val)
        /\ ExactResult(input).known => eval_log[k].result = ExactResult(input).val

(* 46341 * 46341 = 2147488281 was evaluated: the result is that minus 2^32 *)
C19_Witness ==
    /\ PlainArithmetic(input)
    /\ input.a.val = 46341 /\ input.op = "*" /\ input.b.val = 46341
    /\ ~ExactResult(input).known
    /\ Len(eval_log) = 1
    /\ eval_log[1].ret1 = ERR_NONE
    /\ eval_log[1].result = -2147479015

(***************************************************************************)
(* C20: the highest index of the slot that eval_expression read is at most *)
(* the index of the line's terminating NUL, and so within the slot.  (The  *)
(* model counts indices from 1: the NUL of a line of n characters is at    *)
(* n + 1 and the slot ends at MSG_SIZE.)                                   *)
(***************************************************************************)
C20_NoReadPastNul ==
    \A k \in 1..Len(eval_log) :
      /\ eval_log[k].hi <= strlen(eval_log[k].line, 1) + 1
      /\ eval_log[k].hi <= MSG_SIZE


=============================================================================
